---- MODULE Spec2Model ----
(***************************************************************************)
(* A model of the analytics engine: the four aggregators of src/src        *)
(* (time_patterns.rs, trends.rs, co_occurrence.rs, statistics.rs) and the  *)
(* boundary operations of lib.rs that call them.                           *)
(*                                                                         *)
(* Conventions.                                                            *)
(*  - A Rust String is a sequence of one-character strings,                *)
(*    "2024" is <<"2","0","2","4">>; strings are ordered by byte value.    *)
(*  - Option<T>: None is <<>>, Some(x) is <<x>>.                           *)
(*  - A HashMap is a function from its keys; its iteration order is not    *)
(*    fixed by the code, so every order is a possible outcome.             *)
(*  - An f64 that is the quotient of two integers is the record            *)
(*    [num, den], the f64 nearest to num / den; section "f64" below gives  *)
(*    the values statistics.rs uses.                                       *)
(*  - A u32 of 2^31 or more is held as the i32 with the same 32 bits.      *)
(***************************************************************************)
EXTENDS Integers, Sequences, FiniteSets, TLC

VARIABLES op, input, pc, out, out2

vars == <<op, input, pc, out, out2>>

None == <<>>
Some(x) == <<x>>
IsSome(o) == Len(o) = 1
Unwrap(o) == o[1]

(***************************************************************************)
(* Strings                                                                 *)
(***************************************************************************)

DigitChars == <<"0", "1", "2", "3", "4", "5", "6", "7", "8", "9">>

Digits == {"0", "1", "2", "3", "4", "5", "6", "7", "8", "9"}

\* A String is the sequence of its characters. The 256 byte values in
\* ascending order, each under its name: an ASCII character is named by
\* itself where a TLA+ string can hold it (tab, line feed, form feed and
\* carriage return as "\t", "\n", "\f", "\r"), every other byte by its two
\* hexadecimal digits: "60" is the grave accent, "7f" DEL, "00" NUL, and a
\* character beyond ASCII is the sequence of the bytes of its UTF-8 encoding,
\* "c3", "a9" for U+00E9.
ByteOrder ==
  <<
    "00", "01", "02", "03", "04", "05", "06", "07", "08", "\t", "\n", "0b",
    "\f", "\r", "0e", "0f", "10", "11", "12", "13", "14", "15", "16", "17",
    "18", "19", "1a", "1b", "1c", "1d", "1e", "1f", " ", "!", "\"", "#",
    "$", "%", "&", "'", "(", ")", "*", "+", ",", "-", ".", "/",
    "0", "1", "2", "3", "4", "5", "6", "7", "8", "9", ":", ";",
    "<", "=", ">", "?", "@", "A", "B", "C", "D", "E", "F", "G",
    "H", "I", "J", "K", "L", "M", "N", "O", "P", "Q", "R", "S",
    "T", "U", "V", "W", "X", "Y", "Z", "[", "\\", "]", "^", "_",
    "60", "a", "b", "c", "d", "e", "f", "g", "h", "i", "j", "k",
    "l", "m", "n", "o", "p", "q", "r", "s", "t", "u", "v", "w",
    "x", "y", "z", "{", "|", "}", "~", "7f", "80", "81", "82", "83",
    "84", "85", "86", "87", "88", "89", "8a", "8b", "8c", "8d", "8e", "8f",
    "90", "91", "92", "93", "94", "95", "96", "97", "98", "99", "9a", "9b",
    "9c", "9d", "9e", "9f", "a0", "a1", "a2", "a3", "a4", "a5", "a6", "a7",
    "a8", "a9", "aa", "ab", "ac", "ad", "ae", "af", "b0", "b1", "b2", "b3",
    "b4", "b5", "b6", "b7", "b8", "b9", "ba", "bb", "bc", "bd", "be", "bf",
    "c0", "c1", "c2", "c3", "c4", "c5", "c6", "c7", "c8", "c9", "ca", "cb",
    "cc", "cd", "ce", "cf", "d0", "d1", "d2", "d3", "d4", "d5", "d6", "d7",
    "d8", "d9", "da", "db", "dc", "dd", "de", "df", "e0", "e1", "e2", "e3",
    "e4", "e5", "e6", "e7", "e8", "e9", "ea", "eb", "ec", "ed", "ee", "ef",
    "f0", "f1", "f2", "f3", "f4", "f5", "f6", "f7", "f8", "f9", "fa", "fb",
    "fc", "fd", "fe", "ff">>

\* The characters U+00A0 to U+00FF in ascending order, which may also be
\* written as they are: each stands for the two bytes of its encoding.
Latin1 ==
  <<
    " ", "¡", "¢", "£", "¤", "¥", "¦", "§", "¨", "©", "ª", "«",
    "¬", "­", "®", "¯", "°", "±", "²", "³", "´", "µ", "¶", "·",
    "¸", "¹", "º", "»", "¼", "½", "¾", "¿", "À", "Á", "Â", "Ã",
    "Ä", "Å", "Æ", "Ç", "È", "É", "Ê", "Ë", "Ì", "Í", "Î", "Ï",
    "Ð", "Ñ", "Ò", "Ó", "Ô", "Õ", "Ö", "×", "Ø", "Ù", "Ú", "Û",
    "Ü", "Ý", "Þ", "ß", "à", "á", "â", "ã", "ä", "å", "æ", "ç",
    "è", "é", "ê", "ë", "ì", "í", "î", "ï", "ð", "ñ", "ò", "ó",
    "ô", "õ", "ö", "÷", "ø", "ù", "ú", "û", "ü", "ý", "þ", "ÿ">>

\* The byte value of every name of a byte.
ByteOf ==
  [c \in {ByteOrder[i] : i \in 1..Len(ByteOrder)} |->
     (CHOOSE i \in 1..Len(ByteOrder) : ByteOrder[i] = c) - 1]

\* The bytes of a character (str::as_bytes): one for the name of a byte, the
\* two of the UTF-8 encoding for a character of Latin1. No other character
\* is modelled: for one the CHOOSE has no value, and so no comparison has.
Utf8(c) ==
  IF c \in DOMAIN ByteOf THEN <<ByteOf[c]>>
  ELSE LET code == 159 + (CHOOSE i \in 1..Len(Latin1) : Latin1[i] = c)
       IN  <<192 + (code \div 64), 128 + (code % 64)>>

\* The bytes of a string.
RECURSIVE Bytes(_)
Bytes(s) == IF s = <<>> THEN <<>> ELSE Utf8(Head(s)) \o Bytes(Tail(s))

\* Ord for [u8]: lexicographic, a proper prefix is smaller.
RECURSIVE BytesLess(_, _)
BytesLess(x, y) ==
  IF y = <<>> THEN FALSE
  ELSE IF x = <<>> THEN TRUE
  ELSE IF Head(x) # Head(y) THEN Head(x) < Head(y)
  ELSE BytesLess(Tail(x), Tail(y))

\* Ord of two characters is Less: the order of their bytes.
ByteLess(c, d) == BytesLess(Utf8(c), Utf8(d))

DigitVal(c) == (CHOOSE i \in 1..10 : DigitChars[i] = c) - 1

DigitChar(d) == DigitChars[d + 1]

\* Ord for str: lexicographic on bytes, a proper prefix is smaller. Equal
\* characters have equal bytes and are passed over; at the first difference
\* two single bytes decide, and otherwise the bytes of what is left do.
RECURSIVE StrLess(_, _)
StrLess(a, b) ==
  IF b = <<>> THEN FALSE
  ELSE IF a = <<>> THEN TRUE
  ELSE IF Head(a) = Head(b) THEN StrLess(Tail(a), Tail(b))
  ELSE IF Head(a) \in DOMAIN ByteOf /\ Head(b) \in DOMAIN ByteOf
       THEN ByteOf[Head(a)] < ByteOf[Head(b)]
  ELSE BytesLess(Bytes(a), Bytes(b))

\* str::split(c): the pieces between the occurrences of c, empty ones kept.
RECURSIVE Split(_, _)
Split(s, c) ==
  IF \A i \in 1..Len(s) : s[i] # c THEN <<s>>
  ELSE LET i == CHOOSE k \in 1..Len(s) : s[k] = c /\ \A l \in 1..(k - 1) : s[l] # c
       IN  <<SubSeq(s, 1, i - 1)>> \o Split(SubSeq(s, i + 1, Len(s)), c)

\* str::trim_end_matches(c): every trailing c removed.
RECURSIVE TrimEndMatches(_, _)
TrimEndMatches(s, c) ==
  IF s # <<>> /\ s[Len(s)] = c THEN TrimEndMatches(SubSeq(s, 1, Len(s) - 1), c)
  ELSE s

I32Max == 2147483647
I32Min == (0 - I32Max) - 1

\* u32::MAX = 10 * U32MaxDiv10 + 5
U32MaxDiv10 == 429496729

(***************************************************************************)
(* Integer arithmetic of Rust. / and % truncate towards zero. The i32      *)
(* operations are given with their wrapped result (the build without       *)
(* overflow checks) and with the condition under which the build with      *)
(* overflow checks panics. A u32 of 2^31 or more is held as the i32 with   *)
(* the same 32 bits (u32::MAX as -1), so that `as i32` and `as u32` keep   *)
(* the holder.                                                             *)
(***************************************************************************)

\* a / b for b > 0
TruncDiv(a, b) ==
  IF a >= 0 \/ a % b = 0 THEN a \div b ELSE (a \div b) + 1

TruncRem(a, b) == a - b * TruncDiv(a, b)

\* `x as u32` of an i32 and `x as i32` of a u32 keep the 32 bits.
AsU32(x) == x

\* u32::MAX, as its holder.
U32Max == 0 - 1

\* a < b of two u32 (as holders)
U32Less(a, b) ==
  IF (a < 0) = (b < 0) THEN a < b ELSE b < 0

\* a + b overflows i32.
AddOverflows(a, b) ==
  \/ a > 0 /\ b > 0 /\ a > I32Max - b
  \/ a < 0 /\ b < 0 /\ a < I32Min - b

\* a.wrapping_add(b)
WrapAdd(a, b) ==
  IF a > 0 /\ b > 0 /\ a > I32Max - b
  THEN ((a - I32Max) - 1) + ((b - I32Max) - 1)
  ELSE IF a < 0 /\ b < 0 /\ a < I32Min - b
  THEN ((a + I32Max) + 1) + ((b + I32Max) + 1)
  ELSE a + b

\* An i32 on its way through an expression: the wrapped value v and whether
\* an operation has overflowed so far.
Checked(v) == [v |-> v, overflow |-> FALSE]

CheckedAdd(x, b) ==
  [v |-> WrapAdd(x.v, b), overflow |-> x.overflow \/ AddOverflows(x.v, b)]

\* 2 * a, 4 * a, ... wrapped.
Twice(a) == WrapAdd(a, a)

\* 13 * x: wrapped, as 8x + 4x + x, and whether it overflows.
CheckedMul13(x) ==
  [v |-> WrapAdd(WrapAdd(Twice(Twice(Twice(x.v))), Twice(Twice(x.v))), x.v),
   overflow |-> \/ x.overflow
                \/ x.v > I32Max \div 13
                \/ x.v < TruncDiv(I32Min, 13)]

\* a + b of two u32 (as holders) overflows u32: b is small and not negative.
U32AddOverflows(a, b) == a < 0 /\ a + b >= 0

\* `w as usize` used as an index into an array of `len` elements: in bounds
\* or a panic. A negative holder stands for a value of 2^31 or more.
IndexInBounds(w, len) == w >= 0 /\ w < len

(***************************************************************************)
(* Parsing and formatting of integers                                      *)
(***************************************************************************)

\* The value of a digit string, None when it exceeds i32::MAX.
RECURSIVE ParseDigits(_, _)
ParseDigits(s, acc) ==
  IF s = <<>> THEN Some(acc)
  ELSE IF Head(s) \notin Digits THEN None
  ELSE LET d == DigitVal(Head(s))
       IN  IF acc > (I32Max - d) \div 10 THEN None
           ELSE ParseDigits(Tail(s), acc * 10 + d)

\* The value of a digit string after "-", built downwards as the parser
\* does: None when it goes below i32::MIN.
RECURSIVE ParseNegativeDigits(_, _)
ParseNegativeDigits(s, acc) ==
  IF s = <<>> THEN Some(acc)
  ELSE IF Head(s) \notin Digits THEN None
  ELSE LET d == DigitVal(Head(s))
       IN  IF acc < TruncDiv(I32Min + d, 10) THEN None
           ELSE ParseNegativeDigits(Tail(s), acc * 10 - d)

\* str::parse::<i32>(): an optional sign, then one or more digits.
ParseI32(s) ==
  IF s = <<>> THEN None
  ELSE IF Head(s) = "-"
  THEN IF Len(s) = 1 THEN None ELSE ParseNegativeDigits(Tail(s), 0)
  ELSE IF Head(s) = "+"
  THEN IF Len(s) = 1 THEN None ELSE ParseDigits(Tail(s), 0)
  ELSE ParseDigits(s, 0)

\* The value of a digit string as a u32 holder, None when it exceeds
\* u32::MAX. A value of 2^31 or more is reached with its last digit d from
\* acc <= U32MaxDiv10: 10 * acc + d - 2^32 = 10 * (acc - 429496728) + d - 16.
RECURSIVE ParseU32Digits(_, _)
ParseU32Digits(s, acc) ==
  IF s = <<>> THEN Some(acc)
  ELSE IF Head(s) \notin Digits \/ acc < 0 THEN None
  ELSE LET d == DigitVal(Head(s))
       IN  IF acc <= (I32Max - d) \div 10
           THEN ParseU32Digits(Tail(s), acc * 10 + d)
           ELSE IF acc > U32MaxDiv10 \/ (acc = U32MaxDiv10 /\ d > 5) THEN None
           ELSE ParseU32Digits(Tail(s), (acc - (U32MaxDiv10 - 1)) * 10 + (d - 16))

\* str::parse::<u32>(): an optional "+", then one or more digits.
ParseU32(s) ==
  IF s = <<>> THEN None
  ELSE IF Head(s) = "+"
  THEN IF Len(s) = 1 THEN None ELSE ParseU32Digits(Tail(s), 0)
  ELSE ParseU32Digits(s, 0)

RECURSIVE NatToStr(_)
NatToStr(n) ==
  IF n < 10 THEN <<DigitChar(n)>>
  ELSE NatToStr(n \div 10) \o <<DigitChar(n % 10)>>

\* The digits of -n for n < 0 (i32::MIN included).
NegToStr(n) ==
  IF n > -10 THEN <<DigitChar(0 - n)>>
  ELSE NatToStr(0 - TruncDiv(n, 10)) \o <<DigitChar(0 - TruncRem(n, 10))>>

\* The digits of a u32 from its holder: for h < 0 the value is
\* 2^32 + h = 10 * (U32MaxDiv10 + h \div 10) + (6 + h % 10).
U32ToStr(h) ==
  IF h >= 0 THEN NatToStr(h)
  ELSE IF 6 + (h % 10) >= 10
  THEN NatToStr(U32MaxDiv10 + (h \div 10) + 1) \o <<DigitChar((h % 10) - 4)>>
  ELSE NatToStr(U32MaxDiv10 + (h \div 10)) \o <<DigitChar(6 + (h % 10))>>

RECURSIVE ZeroPad(_, _)
ZeroPad(s, width) == IF Len(s) >= width THEN s ELSE ZeroPad(<<"0">> \o s, width)

\* format!("{:0w}", n) of an i32: the sign counts towards the width.
FormatPadded(n, width) ==
  IF n < 0 THEN <<"-">> \o ZeroPad(NegToStr(n), width - 1)
  ELSE ZeroPad(NatToStr(n), width)

\* format!("{:0w}", n) of a u32.
FormatU32(h, width) == ZeroPad(U32ToStr(h), width)

(***************************************************************************)
(* time_patterns.rs: timestamp parsing and weekday                         *)
(***************************************************************************)

DAY_NAMES ==
  << <<"s","u","n","d","a","y">>, <<"m","o","n","d","a","y">>,
     <<"t","u","e","s","d","a","y">>, <<"w","e","d","n","e","s","d","a","y">>,
     <<"t","h","u","r","s","d","a","y">>, <<"f","r","i","d","a","y">>,
     <<"s","a","t","u","r","d","a","y">> >>

TIME_OF_DAY_NAMES ==
  << <<"m","o","r","n","i","n","g">>, <<"a","f","t","e","r","n","o","o","n">>,
     <<"e","v","e","n","i","n","g">>, <<"n","i","g","h","t">> >>

\* day as i32 + (13 * (m + 1)) / 5 + k + k / 4 + j / 4 - 2 * j, from the left.
zeller_sum(day, product, k, j) ==
  CheckedAdd(
    CheckedAdd(
      CheckedAdd(
        CheckedAdd(
          CheckedAdd([v |-> day, overflow |-> product.overflow],
                     TruncDiv(product.v, 5)),
          k),
        TruncDiv(k, 4)),
      TruncDiv(j, 4)),
    0 - 2 * j)

\* The sum for the year y and month m after the shift of January and
\* February: k = y % 100, j = y / 100.
zeller_of(y, m, day) ==
  zeller_sum(day,
             CheckedMul13(CheckedAdd([v |-> m, overflow |-> y.overflow], 1)),
             TruncRem(y.v, 100), TruncDiv(y.v, 100))

\* The sum of Zeller's congruence as both copies of calculate_weekday
\* compute it, before `% 7`.
zeller(year, month, day) ==
  IF month < 3 THEN zeller_of(CheckedAdd(Checked(year), -1), month + 12, day)
  ELSE zeller_of(Checked(year), month, day)

\* calculate_weekday of time_patterns.rs in the build without overflow
\* checks: Zeller's congruence, remapped by +6 to 0 = Sunday.
tp_calculate_weekday(year, month, day) ==
  AsU32(TruncRem(TruncRem(zeller(year, month, day).v, 7) + 6, 7))

\* The build with overflow checks panics in calculate_weekday.
tp_calculate_weekday_overflows(year, month, day) ==
  zeller(year, month, day).overflow

tp_parse_timestamp_fields(year, month, day, hour, minute) ==
  IF ~IsSome(year) \/ ~IsSome(month) \/ ~IsSome(day) THEN None
  ELSE IF ~IsSome(hour) \/ ~IsSome(minute) THEN None
  ELSE Some([year |-> Unwrap(year), month |-> Unwrap(month),
             day |-> Unwrap(day), hour |-> Unwrap(hour),
             minute |-> Unwrap(minute),
             weekday |-> tp_calculate_weekday(
                Unwrap(year), Unwrap(month), Unwrap(day)),
             overflow |-> tp_calculate_weekday_overflows(
                Unwrap(year), Unwrap(month), Unwrap(day))])

tp_parse_timestamp_parts(date_parts, time_parts) ==
  IF Len(date_parts) # 3 THEN None
  ELSE IF Len(time_parts) < 2 THEN None
  ELSE tp_parse_timestamp_fields(
         ParseI32(date_parts[1]), ParseU32(date_parts[2]), ParseU32(date_parts[3]),
         ParseU32(time_parts[1]), ParseU32(time_parts[2]))

tp_parse_timestamp_halves(parts) ==
  IF Len(parts) # 2 THEN None
  ELSE tp_parse_timestamp_parts(Split(parts[1], "-"),
                                  Split(TrimEndMatches(parts[2], "Z"), ":"))

\* parse_timestamp: split on "T", the date on "-", the time (less trailing
\* "Z") on ":"; None as soon as a count or a number is wrong. The field
\* `overflow` of the result tells that the build with overflow checks
\* panics in calculate_weekday instead of returning it.
tp_parse_timestamp(ts) == tp_parse_timestamp_halves(Split(ts, "T"))

(***************************************************************************)
(* trends.rs: its own timestamp parsing, weekday and week key              *)
(***************************************************************************)

\* calculate_weekday of trends.rs in the build without overflow checks: the
\* same sum, remapped by +5.
tr_calculate_weekday(year, month, day) ==
  AsU32(TruncRem(TruncRem(zeller(year, month, day).v, 7) + 5, 7))

\* The build with overflow checks panics in calculate_weekday.
tr_calculate_weekday_overflows(year, month, day) ==
  zeller(year, month, day).overflow

tr_parse_timestamp_fields(year, month, day, hour, minute) ==
  IF ~IsSome(year) \/ ~IsSome(month) \/ ~IsSome(day) THEN None
  ELSE IF ~IsSome(hour) \/ ~IsSome(minute) THEN None
  ELSE Some([year |-> Unwrap(year), month |-> Unwrap(month),
             day |-> Unwrap(day), hour |-> Unwrap(hour),
             minute |-> Unwrap(minute),
             weekday |-> tr_calculate_weekday(
                Unwrap(year), Unwrap(month), Unwrap(day)),
             overflow |-> tr_calculate_weekday_overflows(
                Unwrap(year), Unwrap(month), Unwrap(day))])

tr_parse_timestamp_parts(date_parts, time_parts) ==
  IF Len(date_parts) # 3 THEN None
  ELSE IF Len(time_parts) < 2 THEN None
  ELSE tr_parse_timestamp_fields(
         ParseI32(date_parts[1]), ParseU32(date_parts[2]), ParseU32(date_parts[3]),
         ParseU32(time_parts[1]), ParseU32(time_parts[2]))

tr_parse_timestamp_halves(parts) ==
  IF Len(parts) # 2 THEN None
  ELSE tr_parse_timestamp_parts(Split(parts[1], "-"),
                                  Split(TrimEndMatches(parts[2], "Z"), ":"))

\* parse_timestamp: split on "T", the date on "-", the time (less trailing
\* "Z") on ":"; None as soon as a count or a number is wrong. The field
\* `overflow` of the result tells that the build with overflow checks
\* panics in calculate_weekday instead of returning it.
tr_parse_timestamp(ts) == tr_parse_timestamp_halves(Split(ts, "T"))

days_in_month == <<31, 28, 31, 30, 31, 30, 31, 31, 30, 31, 30, 31>>

RECURSIVE SumFirst(_, _)
SumFirst(s, n) == IF n = 0 THEN 0 ELSE SumFirst(s, n - 1) + s[n]

\* 2^32 = 7 * TwoTo32Div7 + 4
TwoTo32Div7 == 613566756

\* (day_of_year as f64 / 7.0).ceil() as u32 of a u32 holder: the quotient is
\* exact enough in f64 for the ceiling to be that of the integers.
U32CeilDiv7(h) ==
  IF h >= 0 THEN (h \div 7) + (IF h % 7 = 0 THEN 0 ELSE 1)
  ELSE TwoTo32Div7 + ((h + 10) \div 7)

is_leap(year) ==
  (TruncRem(year, 4) = 0 /\ TruncRem(year, 100) # 0) \/ TruncRem(year, 400) = 0

\* What the loop adds to day_of_year for the months before `month`.
days_before(month) == SumFirst(days_in_month, month - 1)

leap_day(year, month) == IF is_leap(year) /\ month > 2 THEN 1 ELSE 0

\* format!("{:04}-W{:02}", year, week)
week_label(year, day_of_year) ==
  Some(FormatPadded(year, 4) \o <<"-", "W">>
       \o FormatU32(U32CeilDiv7(day_of_year), 2))

\* get_week_key without the day added after February in a leap year.
get_week_key_without_leap_day(year, month, day) ==
  IF month <= 0 \/ month > Len(days_in_month) + 1 THEN None
  ELSE week_label(year, WrapAdd(day, days_before(month)))

\* get_week_key: None stands for the panic of `month - 1` at month 0 and of
\* days_in_month[i] at i = 12 (months of 14 and more, a negative holder
\* included); month 13 runs through all twelve entries. day_of_year is a
\* u32, here wrapped.
get_week_key(year, month, day) ==
  IF month <= 0 \/ month > Len(days_in_month) + 1 THEN None
  ELSE week_label(year, WrapAdd(WrapAdd(day, days_before(month)),
                                leap_day(year, month)))

\* The build with overflow checks panics at one of the additions to
\* day_of_year (for the months that do not panic in any build).
get_week_key_overflows(year, month, day) ==
  /\ month > 0
  /\ month <= Len(days_in_month) + 1
  /\ \/ U32AddOverflows(day, days_before(month))
     \/ U32AddOverflows(WrapAdd(day, days_before(month)), leap_day(year, month))

(***************************************************************************)
(* HashMap iteration and sort_by                                           *)
(***************************************************************************)

\* Sort keys are pairs, compared lexicographically.
KeyLess(a, b) == a[1] < b[1] \/ (a[1] = b[1] /\ a[2] < b[2])

\* HashMap::into_iter() followed by the stable sort_by: the iteration order
\* is any order, so the outcome is any arrangement of the entries S in which
\* no entry comes before one with a smaller key. key is a function on S.
RECURSIVE Arrangements(_, _)
Arrangements(S, key) ==
  IF S = {} THEN {<<>>}
  ELSE UNION {{<<e>> \o r : r \in Arrangements(S \ {e}, key)} :
              e \in {x \in S : \A y \in S : ~KeyLess(key[y], key[x])}}

\* Vec::truncate(n) left out: the list stays as long as it was.
Untruncated(s, n) == s

\* Vec::truncate(n)
Truncate(s, n) == IF Len(s) <= n THEN s ELSE SubSeq(s, 1, n)

\* All sequences that take their i-th element from sets[i].
RECURSIVE SeqProduct(_)
SeqProduct(sets) ==
  IF sets = <<>> THEN {<<>>}
  ELSE {<<x>> \o r : x \in Head(sets), r \in SeqProduct(Tail(sets))}

RECURSIVE SumSeq(_)
SumSeq(s) == IF s = <<>> THEN 0 ELSE Head(s) + SumSeq(Tail(s))

\* iter().sum::<f64>() / len() as f64, for intensities that are integers.
Average(intensities) ==
  IF intensities # <<>>
  THEN Some([num |-> SumSeq(intensities), den |-> Len(intensities)])
  ELSE None

\* A loop over the records lo..hi is written as the loop over lo..mid followed
\* by the loop over mid+1..hi, the state after the first half bound before
\* the second half runs: the records are still visited in order, and the
\* evaluation does not nest once per record.
Only(S) == CHOOSE x \in S : TRUE

\* HashMap: the map with key bound to value, other keys as before.
Insert(map, key, value) == (key :> value) @@ map

Unknown_id == <<"u","n","k","n","o","w","n">>
Unknown_name == <<"U","n","k","n","o","w","n">>

\* Option::unwrap_or_else
UnwrapOr(o, default) == IF IsSome(o) THEN Unwrap(o) ELSE default

(***************************************************************************)
(* time_patterns.rs: compute_time_patterns                                 *)
(***************************************************************************)

TOP_EMOTIONS == 5

\* PatternData and TrendData: count, intensities, emotions (id -> name, count).
update_pattern_data(map, period, emotion_id, emotion_name, intensity) ==
  LET data == IF period \in DOMAIN map THEN map[period]
              ELSE [count |-> 0, intensities |-> <<>>, emotions |-> <<>>]
      entry == IF emotion_id \in DOMAIN data.emotions
               THEN data.emotions[emotion_id]
               ELSE [name |-> emotion_name, count |-> 0]
      updated ==
        [count |-> data.count + 1,
         intensities |-> IF IsSome(intensity)
                         THEN Append(data.intensities, Unwrap(intensity))
                         ELSE data.intensities,
         emotions |-> Insert(data.emotions, emotion_id,
                             [name |-> entry.name, count |-> entry.count + 1])]
  IN  Insert(map, period, updated)

\* The bands with their upper ends included: 12 is morning, 17 afternoon,
\* 22 evening.
time_of_day_of_inclusive(hour) ==
  IF hour >= 5 /\ hour <= 12 THEN TIME_OF_DAY_NAMES[1]
  ELSE IF hour >= 12 /\ hour <= 17 THEN TIME_OF_DAY_NAMES[2]
  ELSE IF hour >= 17 /\ hour <= 22 THEN TIME_OF_DAY_NAMES[3]
  ELSE TIME_OF_DAY_NAMES[4]

\* The band of the hour; a holder below 0 (an hour of 2^31 or more) is in
\* none of the three ranges.
time_of_day_of(hour) ==
  IF hour >= 5 /\ hour < 12 THEN TIME_OF_DAY_NAMES[1]
  ELSE IF hour >= 12 /\ hour < 17 THEN TIME_OF_DAY_NAMES[2]
  ELSE IF hour >= 17 /\ hour < 22 THEN TIME_OF_DAY_NAMES[3]
  ELSE TIME_OF_DAY_NAMES[4]

\* The three pattern maps after one more record has been counted.
tp_update(st, day_of_week, time_of_day, month, emotion_id, emotion_name, intensity) ==
  [panic |-> FALSE,
   overflow |-> st.overflow,
   day_of_week_map |->
     update_pattern_data(st.day_of_week_map, day_of_week,
                         emotion_id, emotion_name, intensity),
   time_of_day_map |->
     update_pattern_data(st.time_of_day_map, time_of_day,
                         emotion_id, emotion_name, intensity),
   month_map |->
     update_pattern_data(st.month_map, month,
                         emotion_id, emotion_name, intensity)]

\* The body of the loop for a record whose timestamp parsed to `parsed`:
\* skipped when it did not parse, panic when DAY_NAMES is indexed out of
\* bounds. st.overflow records that the build with overflow checks has
\* panicked on a record so far.
tp_record(st, reflection, parsed) ==
  IF st.panic \/ ~IsSome(parsed) THEN st
  ELSE IF ~IndexInBounds(Unwrap(parsed).weekday, Len(DAY_NAMES))
  THEN [st EXCEPT !.panic = TRUE]
  ELSE tp_update([st EXCEPT !.overflow = @ \/ Unwrap(parsed).overflow],
                 DAY_NAMES[Unwrap(parsed).weekday + 1],
                 time_of_day_of(Unwrap(parsed).hour),
                 FormatPadded(Unwrap(parsed).year, 4) \o <<"-">>
                   \o FormatU32(Unwrap(parsed).month, 2),
                 UnwrapOr(reflection.emotion_id, Unknown_id),
                 UnwrapOr(reflection.emotion_name, Unknown_name),
                 reflection.intensity)

\* One iteration of the loop of compute_time_patterns.
tp_step(st, reflection) ==
  tp_record(st, reflection, tp_parse_timestamp(reflection.timestamp))

\* The loop over the records lo..hi in order, from the maps st.
RECURSIVE tp_loop(_, _, _, _)
tp_loop(reflections, lo, hi, st) ==
  IF lo > hi THEN st
  ELSE IF lo = hi THEN tp_step(st, reflections[lo])
  ELSE LET mid == (lo + hi) \div 2
       IN  Only({tp_loop(reflections, mid + 1, hi, first) :
                 first \in {tp_loop(reflections, lo, mid, st)}})

\* The possible topEmotions lists of one bucket: by count descending, cut.
top_emotions_of(data) ==
  LET key == [e \in DOMAIN data.emotions |-> <<0 - data.emotions[e].count, 0>>]
  IN  {Truncate([i \in 1..Len(a) |->
                   [emotion_id |-> a[i], emotion_name |-> data.emotions[a[i]].name,
                    count |-> data.emotions[a[i]].count]], TOP_EMOTIONS) :
       a \in Arrangements(DOMAIN data.emotions, key)}

\* Position of x in order (1-based), 0 when absent.
Position(order, x) ==
  IF \E i \in 1..Len(order) : order[i] = x
  THEN CHOOSE i \in 1..Len(order) : order[i] = x /\ \A l \in 1..(i - 1) : order[l] # x
  ELSE 0

\* The comparator without the fixed order: by count descending for every list.
pattern_sort_key_by_count(map, order) ==
  [p \in DOMAIN map |-> <<0 - map[p].count, 0>>]

\* The comparator of format_patterns as a sort key.
pattern_sort_key(map, order) ==
  [p \in DOMAIN map |->
     IF order # <<>>
     THEN IF Position(order, p) # 0 THEN <<Position(order, p), 0>>
          ELSE <<Len(order) + 1, 0 - map[p].count>>
     ELSE <<0 - map[p].count, 0>>]

\* The possible results of format_patterns.
format_patterns(map, order) ==
  UNION {SeqProduct([i \in 1..Len(ps) |->
                       {[period |-> ps[i], count |-> map[ps[i]].count,
                         average_intensity |-> Average(map[ps[i]].intensities),
                         top_emotions |-> t] : t \in top_emotions_of(map[ps[i]])}]) :
         ps \in Arrangements(DOMAIN map, pattern_sort_key(map, order))}

Panicked == [panic |-> TRUE]

\* The possible results when the loop ended with the maps st: a panic in
\* every build, or the results of the build without overflow checks and, when
\* an operation overflowed, the panic of the build with them.
time_patterns_of(st) ==
  IF st.panic THEN {Panicked}
  ELSE {[panic |-> FALSE, day_of_week |-> d, time_of_day |-> t, month |-> m] :
        d \in format_patterns(st.day_of_week_map, DAY_NAMES),
        t \in format_patterns(st.time_of_day_map, TIME_OF_DAY_NAMES),
        m \in format_patterns(st.month_map, <<>>)}
       \cup (IF st.overflow THEN {Panicked} ELSE {})

\* The possible results of compute_time_patterns.
compute_time_patterns(reflections) ==
  time_patterns_of(tp_loop(reflections, 1, Len(reflections),
                           [panic |-> FALSE, overflow |-> FALSE,
                            day_of_week_map |-> <<>>,
                            time_of_day_map |-> <<>>, month_map |-> <<>>]))

(***************************************************************************)
(* trends.rs: compute_trends                                               *)
(***************************************************************************)

\* update_trend_data with `data.count = 1` for `data.count += 1`.
update_trend_data_overwriting(map, period, emotion_id, emotion_name, intensity) ==
  LET data == IF period \in DOMAIN map THEN map[period]
              ELSE [count |-> 0, intensities |-> <<>>, emotions |-> <<>>]
      entry == IF emotion_id \in DOMAIN data.emotions
               THEN data.emotions[emotion_id]
               ELSE [name |-> emotion_name, count |-> 0]
      updated ==
        [count |-> 1,
         intensities |-> IF IsSome(intensity)
                         THEN Append(data.intensities, Unwrap(intensity))
                         ELSE data.intensities,
         emotions |-> Insert(data.emotions, emotion_id,
                             [name |-> entry.name, count |-> entry.count + 1])]
  IN  Insert(map, period, updated)

update_trend_data(map, period, emotion_id, emotion_name, intensity) ==
  LET data == IF period \in DOMAIN map THEN map[period]
              ELSE [count |-> 0, intensities |-> <<>>, emotions |-> <<>>]
      entry == IF emotion_id \in DOMAIN data.emotions
               THEN data.emotions[emotion_id]
               ELSE [name |-> emotion_name, count |-> 0]
      updated ==
        [count |-> data.count + 1,
         intensities |-> IF IsSome(intensity)
                         THEN Append(data.intensities, Unwrap(intensity))
                         ELSE data.intensities,
         emotions |-> Insert(data.emotions, emotion_id,
                             [name |-> entry.name, count |-> entry.count + 1])]
  IN  Insert(map, period, updated)

\* The three trend maps after one more record has been counted; panic when
\* get_week_key panicked.
tr_update(st, daily, week_key, monthly, emotion_id, emotion_name, intensity) ==
  IF ~IsSome(week_key) THEN [st EXCEPT !.panic = TRUE]
  ELSE
  [panic |-> FALSE,
   overflow |-> st.overflow,
   daily_map |->
     update_trend_data(st.daily_map, daily, emotion_id, emotion_name, intensity),
   weekly_map |->
     update_trend_data(st.weekly_map, Unwrap(week_key), emotion_id,
                       emotion_name, intensity),
   monthly_map |->
     update_trend_data(st.monthly_map, monthly, emotion_id, emotion_name,
                       intensity)]

\* format!("{:04}-{:02}-{:02}", year, month, day)
daily_key(timestamp) ==
  FormatPadded(timestamp.year, 4) \o <<"-">> \o FormatU32(timestamp.month, 2)
  \o <<"-">> \o FormatU32(timestamp.day, 2)

\* format!("{:04}-{:02}", year, month)
monthly_key(timestamp) ==
  FormatPadded(timestamp.year, 4) \o <<"-">> \o FormatU32(timestamp.month, 2)

\* The build with overflow checks panics on a record, in parse_timestamp
\* or in get_week_key.
tr_overflows(timestamp) ==
  \/ timestamp.overflow
  \/ get_week_key_overflows(timestamp.year, timestamp.month, timestamp.day)

\* The body of the loop for a record whose timestamp parsed to `parsed`:
\* skipped when it did not parse. st.overflow records that the build with
\* overflow checks has panicked on a record so far.
tr_record(st, reflection, parsed) ==
  IF st.panic \/ ~IsSome(parsed) THEN st
  ELSE tr_update([st EXCEPT !.overflow = @ \/ tr_overflows(Unwrap(parsed))],
                 daily_key(Unwrap(parsed)),
                 get_week_key(Unwrap(parsed).year, Unwrap(parsed).month,
                              Unwrap(parsed).day),
                 monthly_key(Unwrap(parsed)),
                 UnwrapOr(reflection.emotion_id, Unknown_id),
                 UnwrapOr(reflection.emotion_name, Unknown_name),
                 reflection.intensity)

\* One iteration of the loop of compute_trends.
tr_step(st, reflection) ==
  tr_record(st, reflection, tr_parse_timestamp(reflection.timestamp))

\* The loop over the records lo..hi in order, from the maps st.
RECURSIVE tr_loop(_, _, _, _)
tr_loop(reflections, lo, hi, st) ==
  IF lo > hi THEN st
  ELSE IF lo = hi THEN tr_step(st, reflections[lo])
  ELSE LET mid == (lo + hi) \div 2
       IN  Only({tr_loop(reflections, mid + 1, hi, first) :
                 first \in {tr_loop(reflections, lo, mid, st)}})

\* Iterator::max_by_key over the emotions of a HashMap: an entry of the
\* highest count, whichever the iteration visits last; None on no entry.
top_emotion_of(data) ==
  IF DOMAIN data.emotions = {} THEN {None}
  ELSE {Some([emotion_id |-> e, emotion_name |-> data.emotions[e].name,
              count |-> data.emotions[e].count]) :
        e \in {x \in DOMAIN data.emotions :
                 \A y \in DOMAIN data.emotions :
                    data.emotions[y].count <= data.emotions[x].count}}

\* The sort with the comparator reversed: b.date.cmp(&a.date).
RECURSIVE SortStringsDescending(_)
SortStringsDescending(S) ==
  IF S = {} THEN <<>>
  ELSE LET greatest == CHOOSE x \in S : \A y \in S \ {x} : StrLess(y, x)
       IN  <<greatest>> \o SortStringsDescending(S \ {greatest})

\* sort_by(|a, b| a.date.cmp(&b.date)) of entries with distinct dates.
RECURSIVE SortStrings(_)
SortStrings(S) ==
  IF S = {} THEN <<>>
  ELSE LET least == CHOOSE x \in S : \A y \in S \ {x} : StrLess(x, y)
       IN  <<least>> \o SortStrings(S \ {least})

\* The possible results of format_trends.
format_trends(map) ==
  LET dates == SortStrings(DOMAIN map)
  IN  SeqProduct([i \in 1..Len(dates) |->
                    {[date |-> dates[i], count |-> map[dates[i]].count,
                      average_intensity |-> Average(map[dates[i]].intensities),
                      top_emotion |-> t] : t \in top_emotion_of(map[dates[i]])}])

\* The possible results when the loop ended with the maps st: a panic in
\* every build, or the results of the build without overflow checks and, when
\* an operation overflowed, the panic of the build with them.
trends_of(st) ==
  IF st.panic THEN {Panicked}
  ELSE {[panic |-> FALSE, daily |-> d, weekly |-> w, monthly |-> m] :
        d \in format_trends(st.daily_map),
        w \in format_trends(st.weekly_map),
        m \in format_trends(st.monthly_map)}
       \cup (IF st.overflow THEN {Panicked} ELSE {})

\* The possible results of compute_trends.
compute_trends(reflections) ==
  trends_of(tr_loop(reflections, 1, Len(reflections),
                    [panic |-> FALSE, overflow |-> FALSE, daily_map |-> <<>>,
                     weekly_map |-> <<>>, monthly_map |-> <<>>]))

(***************************************************************************)
(* co_occurrence.rs: compute_co_occurrence                                 *)
(***************************************************************************)

TOP_CO_OCCURRENCES == 20

\* The emotion list of a record: the primary emotion, then the related ones.
emotions_of(reflection) ==
  (IF IsSome(reflection.emotion_id) THEN <<Unwrap(reflection.emotion_id)>> ELSE <<>>)
  \o (IF IsSome(reflection.related_emotions)
      THEN Unwrap(reflection.related_emotions) ELSE <<>>)

\* pair.sort(); format!("{}-{}", pair[0], pair[1])
pair_key(a, b) ==
  IF StrLess(b, a) THEN b \o <<"-">> \o a ELSE a \o <<"-">> \o b

\* The keys of the nested loops over i < j, in the order of the loops.
pair_keys(emotions) ==
  LET n == Len(emotions)
      \* the k-th pair (i, j) of the n*(n-1)/2, rows i = 1, 2, ...
      RECURSIVE row(_, _)
      row(i, j) ==
        IF i >= n THEN <<>>
        ELSE IF j > n THEN row(i + 1, i + 2)
        ELSE <<pair_key(emotions[i], emotions[j])>> \o row(i, j + 1)
  IN  row(1, 2)

\* *map.entry(key).or_insert(0) += 1, for each key in turn.
RECURSIVE count_keys(_, _)
count_keys(map, keys) ==
  IF keys = <<>> THEN map
  ELSE LET key == Head(keys)
           old == IF key \in DOMAIN map THEN map[key] ELSE 0
       IN  count_keys(Insert(map, key, old + 1), Tail(keys))

\* The loop over the records lo..hi in order, from co_occurrence_map = map.
RECURSIVE co_loop(_, _, _, _)
co_loop(reflections, lo, hi, map) ==
  IF lo > hi THEN map
  ELSE IF lo = hi THEN count_keys(map, pair_keys(emotions_of(reflections[lo])))
  ELSE LET mid == (lo + hi) \div 2
       IN  Only({co_loop(reflections, mid + 1, hi, first) :
                 first \in {co_loop(reflections, lo, mid, map)}})

\* The CoOccurrence built from one entry of the map: the key is split on "-".
\* The percentage (count as f64 / total as f64) * 100.0 is held as its two
\* operations: the f64 nearest to num / den, times 100, rounded again; 0.0
\* is 0 / 1 times 1.
co_entry(key, count, total) ==
  LET parts == Split(key, "-")
  IN  [emotion_pair |-> IF Len(parts) = 2 THEN <<parts[1], parts[2]>>
                        ELSE <<Unknown_id, Unknown_id>>,
       count |-> count,
       percentage |-> IF total > 0
                      THEN [quotient |-> [num |-> count, den |-> total],
                            times |-> 100]
                      ELSE [quotient |-> [num |-> 0, den |-> 1], times |-> 1]]

\* The possible results of compute_co_occurrence.
compute_co_occurrence(reflections) ==
  LET map == co_loop(reflections, 1, Len(reflections), <<>>)
      total == Len(reflections)
      key == [k \in DOMAIN map |-> <<0 - map[k], 0>>]
  IN  {[panic |-> FALSE,
        pairs |-> Truncate([i \in 1..Len(a) |-> co_entry(a[i], map[a[i]], total)],
                           TOP_CO_OCCURRENCES)] :
       a \in Arrangements(DOMAIN map, key)}

(***************************************************************************)
(* f64, as far as statistics.rs needs it.  A value is [inf, hi, lo, den]:  *)
(*    inf = 1: +infinity, inf = -1: -infinity (hi = lo = 0, den = 1)       *)
(*    inf = 0: (hi * f64::MAX + lo) / den                                  *)
(* with hi in {-1, 0, 1}, lo an integer that is 0 when hi # 0, den >= 1.   *)
(* Adding an integer to +-f64::MAX rounds back to +-f64::MAX; f64::MAX +   *)
(* f64::MAX overflows to +infinity. A quotient is kept exact: rounding it  *)
(* to the nearest f64 does not change how it compares with the values the  *)
(* model draws, which are f64 themselves.                                  *)
(***************************************************************************)

F64(n) == [inf |-> 0, hi |-> 0, lo |-> n, den |-> 1]
F64_MAX == [inf |-> 0, hi |-> 1, lo |-> 0, den |-> 1]
F64_MIN == [inf |-> 0, hi |-> -1, lo |-> 0, den |-> 1]
F64_INFINITY(s) == [inf |-> s, hi |-> 0, lo |-> 0, den |-> 1]

\* a + b for den = 1 and b finite.
FAdd(a, b) ==
  IF a.inf # 0 THEN a
  ELSE IF a.hi + b.hi >= 2 THEN F64_INFINITY(1)
  ELSE IF a.hi + b.hi <= -2 THEN F64_INFINITY(-1)
  ELSE [inf |-> 0, hi |-> a.hi + b.hi,
        lo |-> IF a.hi = 0 /\ b.hi = 0 THEN a.lo + b.lo ELSE 0, den |-> 1]

\* a / n for an integer n >= 1.
FDiv(a, n) == IF a.inf # 0 THEN a ELSE [a EXCEPT !.den = a.den * n]

\* a < b (partial_cmp is Less)
FLess(a, b) ==
  \/ a.inf < b.inf
  \/ /\ a.inf = 0 /\ b.inf = 0
     /\ \/ a.hi * b.den < b.hi * a.den
        \/ a.hi * b.den = b.hi * a.den /\ a.lo * b.den < b.lo * a.den

FLeq(a, b) == ~FLess(b, a)

(***************************************************************************)
(* statistics.rs: compute_statistics                                       *)
(***************************************************************************)

percentiles_to_calc == <<10, 25, 50, 75, 90, 95, 99>>

\* sorted.sort_by(partial_cmp): insertion of each value after the values
\* that are not greater (the sort is stable).
RECURSIVE SortF64(_)
SortF64(values) ==
  IF values = <<>> THEN <<>>
  ELSE LET rest == SortF64(SubSeq(values, 1, Len(values) - 1))
           v == values[Len(values)]
           k == Cardinality({i \in 1..Len(rest) : FLeq(rest[i], v)})
       IN  SubSeq(rest, 1, k) \o <<v>> \o SubSeq(rest, k + 1, Len(rest))

\* values.iter().sum(): from 0.0, in the order of the input.
RECURSIVE SumF64(_)
SumF64(values) ==
  IF values = <<>> THEN F64(0)
  ELSE FAdd(SumF64(SubSeq(values, 1, Len(values) - 1)), values[Len(values)])

\* The index with the fraction cut off instead of rounded.
percentile_index_truncated(p, n) == (p * (n - 1)) \div 100

\* ((p as f64 / 100.0) * (n - 1) as f64).round() as usize: halves round
\* away from zero.
percentile_index(p, n) == (2 * p * (n - 1) + 100) \div 200

Min(a, b) == IF a <= b THEN a ELSE b

\* The key without its prefix: format!("{}", p).
percentile_key_unprefixed(p) == NatToStr(p)

\* format!("p{}", p)
percentile_key(p) == <<"p">> \o NatToStr(p)

compute_statistics(values) ==
  IF values = <<>>
  THEN [panic |-> FALSE, mean |-> F64(0), median |-> F64(0), min |-> F64(0),
        max |-> F64(0), percentiles |-> <<>>]
  ELSE
  LET sorted == SortF64(values)
      n == Len(sorted)
      mean == FDiv(SumF64(values), n)
      median == IF n % 2 = 0
                THEN FDiv(FAdd(sorted[n \div 2], sorted[n \div 2 + 1]), 2)
                ELSE sorted[n \div 2 + 1]
  IN  [panic |-> FALSE, mean |-> mean, median |-> median, min |-> sorted[1],
       max |-> sorted[n],
       percentiles |->
         [k \in {percentile_key(percentiles_to_calc[i]) :
                   i \in 1..Len(percentiles_to_calc)} |->
            LET p == percentiles_to_calc[
                       CHOOSE i \in 1..Len(percentiles_to_calc) :
                          percentile_key(percentiles_to_calc[i]) = k]
            IN  sorted[Min(percentile_index(p, n), n - 1) + 1]]]

(***************************************************************************)
(* lib.rs: the boundary operations. The encoded input is None when it does *)
(* not decode, Some(list) otherwise; the result is held as the caller      *)
(* decodes the text returned.                                              *)
(***************************************************************************)

calculate_time_patterns(reflections_json) ==
  IF ~IsSome(reflections_json) \/ Unwrap(reflections_json) = <<>>
  THEN {[panic |-> FALSE, day_of_week |-> <<>>, time_of_day |-> <<>>, month |-> <<>>]}
  ELSE compute_time_patterns(Unwrap(reflections_json))

calculate_trends(reflections_json) ==
  IF ~IsSome(reflections_json) \/ Unwrap(reflections_json) = <<>>
  THEN {[panic |-> FALSE, daily |-> <<>>, weekly |-> <<>>, monthly |-> <<>>]}
  ELSE compute_trends(Unwrap(reflections_json))

calculate_co_occurrence(reflections_json) ==
  IF ~IsSome(reflections_json) \/ Unwrap(reflections_json) = <<>>
  THEN {[panic |-> FALSE, pairs |-> <<>>]}
  ELSE compute_co_occurrence(Unwrap(reflections_json))

\* What serde_json writes for an f64 that is not finite.
JsonNull == [null |-> TRUE]

f64_to_json(x) == IF x.inf # 0 THEN JsonNull ELSE x

\* serde_json::to_string of a StatisticsResult, as the caller decodes it.
statistics_to_json(result) ==
  [panic |-> FALSE,
   mean |-> f64_to_json(result.mean),
   median |-> f64_to_json(result.median),
   min |-> f64_to_json(result.min),
   max |-> f64_to_json(result.max),
   percentiles |-> [k \in DOMAIN result.percentiles |->
                      f64_to_json(result.percentiles[k])]]

calculate_statistics(values_json) ==
  IF ~IsSome(values_json) \/ Unwrap(values_json) = <<>>
  THEN {[panic |-> FALSE, mean |-> F64(0), median |-> F64(0), min |-> F64(0),
         max |-> F64(0), percentiles |-> <<>>]}
  ELSE {statistics_to_json(compute_statistics(Unwrap(values_json)))}

(***************************************************************************)
(* Inputs                                                                  *)
(***************************************************************************)

MaxRecords == 2
MaxValues == 4

RECURSIVE SeqsUpTo(_, _)
SeqsUpTo(S, n) ==
  IF n = 0 THEN {<<>>}
  ELSE LET shorter == SeqsUpTo(S, n - 1)
       IN  shorter \cup {Append(q, x) : q \in {r \in shorter : Len(r) = n - 1}, x \in S}

\* "YYYY-MM-DDTHH:00:00Z" as a client writes it from numbers.
Timestamp(year, month, day, hour) ==
  FormatPadded(year, 4) \o <<"-">> \o FormatU32(month, 2) \o <<"-">>
  \o FormatU32(day, 2) \o <<"T">> \o FormatU32(hour, 2)
  \o <<":", "0", "0", ":", "0", "0", "Z">>

NotATimestamp == <<"n", "o", "w">>

Joy == <<"j","o","y">>
Calm == <<"c","a","l","m">>
Excitement == <<"e","x","c","i","t","e","m","e","n","t">>
SelfDoubt == <<"s","e","l","f","-","d","o","u","b","t">>
Zen == <<"z","e","n">>
Ete == <<"é","t","é">>

Reflection(timestamp, emotion_id, intensity, related_emotions) ==
  [timestamp |-> timestamp, emotion_id |-> emotion_id,
   emotion_name |-> emotion_id, intensity |-> intensity,
   related_emotions |-> related_emotions]

\* Records for the time-based aggregators: dates in and out of range, a
\* timestamp that does not parse, present and absent emotions and
\* intensities, a day of i32::MAX (the sum of calculate_weekday overflows)
\* and a day of u32::MAX (day_of_year of get_week_key overflows).
TimeRecords ==
  {Reflection(Timestamp(2024, 1, 15, 10), Some(Joy), Some(7), None),
   Reflection(Timestamp(2024, 1, 15, 18), Some(Calm), None, None),
   Reflection(Timestamp(2024, 2, 20, 13), Some(Joy), Some(4), None),
   Reflection(Timestamp(2023, 12, 31, 23), None, None, None),
   Reflection(NotATimestamp, Some(Joy), Some(5), None),
   Reflection(Timestamp(2024, 0, 10, 10), Some(Joy), None, None),
   Reflection(Timestamp(2024, 13, 1, 10), Some(Calm), Some(2), None),
   Reflection(Timestamp(2024, 14, 1, 10), Some(Joy), None, None),
   Reflection(Timestamp(2024, 1, 100, 10), Some(Joy), None, None),
   Reflection(Timestamp(10000, 1, 1, 4), Some(Calm), None, None),
   Reflection(Timestamp(2024, 1, I32Max, 10), Some(Joy), None, None),
   Reflection(Timestamp(2024, 2, U32Max, 10), Some(Calm), None, None)}

\* Records for the co-occurrence computer.
CoRecords ==
  {Reflection(Timestamp(2024, 1, 15, 10), Some(Joy), Some(7), Some(<<Excitement>>)),
   Reflection(Timestamp(2024, 1, 15, 10), Some(Joy), Some(7), None),
   Reflection(NotATimestamp, None, None, Some(<<Excitement, Joy>>)),
   Reflection(NotATimestamp, Some(Joy), None, Some(<<Calm, Excitement>>)),
   Reflection(NotATimestamp, Some(SelfDoubt), None, Some(<<Joy>>)),
   Reflection(NotATimestamp, Some(Calm), None, Some(<<Calm, Calm>>)),
   Reflection(NotATimestamp, None, None, Some(<<>>))}

\* n copies of x
RECURSIVE Repeat(_, _)
Repeat(x, n) == IF n = 0 THEN <<>> ELSE <<x>> \o Repeat(x, n - 1)

RECURSIVE Flatten(_)
Flatten(ss) == IF ss = <<>> THEN <<>> ELSE Head(ss) \o Flatten(Tail(ss))

Letters == <<"a", "b", "c", "d", "e", "f", "g">>

\* Six emotions on one day with counts 5, 4, 3, 2, 1, 1: one more than a
\* topEmotions list keeps, the last two tied.
ManyEmotions ==
  Flatten([i \in 1..6 |->
             Repeat(Reflection(Timestamp(2024, 1, 15, 10), Some(<<Letters[i]>>),
                               Some(i), None),
                    IF i = 6 THEN 1 ELSE 6 - i)])

\* The 21 pairs of seven emotions, the k-th in k - 1 records (the first in
\* one): counts 20, 19, ..., 2, 1, 1: one more than the list keeps.
ManyPairs ==
  LET pairs == {<<i, j>> \in (1..7) \X (1..7) : i < j}
      index(pr) == Cardinality({q \in pairs :
                                  q[1] < pr[1] \/ (q[1] = pr[1] /\ q[2] <= pr[2])})
      ordered == [k \in 1..Cardinality(pairs) |-> CHOOSE pr \in pairs : index(pr) = k]
  IN  Flatten([k \in 1..Len(ordered) |->
                 Repeat(Reflection(NotATimestamp, Some(<<Letters[ordered[k][1]]>>),
                                   None, Some(<< <<Letters[ordered[k][2]]>> >>)),
                        IF k = 1 THEN 1 ELSE k - 1)])

\* One pair of identifiers in both orders, one of them beyond ASCII: the
\* byte 7a of "z" comes before the byte c3 of U+00E9.
BeyondAscii ==
  <<Reflection(NotATimestamp, Some(Ete), None, Some(<<Zen>>)),
    Reflection(NotATimestamp, Some(Zen), None, Some(<<Ete>>))>>

Values == {F64(1), F64(2), F64(4), F64_MAX, F64_MIN}

Operations ==
  {"calculate_time_patterns", "calculate_trends", "calculate_co_occurrence",
   "calculate_statistics"}

InputsOf(operation) ==
  {None} \cup
  CASE operation \in {"calculate_time_patterns", "calculate_trends"} ->
         {Some(r) : r \in SeqsUpTo(TimeRecords, MaxRecords) \cup {ManyEmotions}}
    [] operation = "calculate_co_occurrence" ->
         {Some(r) : r \in SeqsUpTo(CoRecords, MaxRecords) \cup {ManyPairs, BeyondAscii}}
    [] operation = "calculate_statistics" ->
         {Some(v) : v \in SeqsUpTo(Values, MaxValues)}

(***************************************************************************)
(* The host calls one boundary operation, and may call it again on the     *)
(* same input. A panic ends the instance. The second call runs in the      *)
(* build the first call returned in, so it returns as well.                *)
(***************************************************************************)

Init ==
  /\ op \in Operations
  /\ input \in InputsOf(op)
  /\ pc = "idle"
  /\ out = None
  /\ out2 = None

Call(results) ==
  /\ \E r \in results :
       \/ /\ pc = "idle"
          /\ out' = Some(r)
          /\ out2' = out2
          /\ pc' = IF r.panic THEN "aborted" ELSE "done"
       \/ /\ pc = "done"
          /\ ~r.panic
          /\ out2' = Some(r)
          /\ out' = out
          /\ pc' = "again"
  /\ UNCHANGED <<op, input>>

CalculateTimePatterns ==
  /\ op = "calculate_time_patterns"
  /\ Call(calculate_time_patterns(input))

CalculateTrends ==
  /\ op = "calculate_trends"
  /\ Call(calculate_trends(input))

CalculateCoOccurrence ==
  /\ op = "calculate_co_occurrence"
  /\ Call(calculate_co_occurrence(input))

CalculateStatistics ==
  /\ op = "calculate_statistics"
  /\ Call(calculate_statistics(input))

Next ==
  \/ CalculateTimePatterns
  \/ CalculateTrends
  \/ CalculateCoOccurrence
  \/ CalculateStatistics

Spec == Init /\ [][Next]_vars

(***************************************************************************)
(* The two timestamp parsers on their own: every string of                 *)
(* TimestampStrings is given to parse_timestamp of time_patterns.rs (the   *)
(* result goes to out) and to parse_timestamp of trends.rs (to out2).      *)
(***************************************************************************)

DateFields ==
  {<<y, m, d>> :
     y \in {FormatPadded(2024, 4), FormatPadded(2023, 4), FormatPadded(0, 4),
            FormatPadded(10000, 4), <<"+">> \o FormatPadded(2000, 4),
            <<"2", "0", "x", "4">>, <<>>},
     m \in {FormatPadded(1, 2), FormatPadded(2, 2), FormatPadded(3, 2),
            FormatPadded(12, 2), FormatPadded(0, 2), FormatPadded(14, 2)},
     d \in {FormatPadded(1, 2), FormatPadded(15, 2), FormatPadded(29, 2),
            <<"1", ".", "5">>, FormatU32(I32Max, 2), FormatU32(U32Max, 2)}}

TimeSuffixes ==
  {<<"T", "1", "0", ":", "0", "0", ":", "0", "0", "Z">>,
   <<"T", "1", "0", ":", "0", "0", ":", "0", "0", ".", "0", "0", "0", "Z">>,
   <<"T", "2", "3", ":", "5", "9">>,
   <<"T", "1", "0">>,
   <<"T", "1", "0", ":", "x", "x">>,
   <<"T", ":", "0", "0">>,
   <<"T", "1", "0", ":", "0", "0", "Z", "T">>,
   <<>>}

TimestampStrings ==
  {f[1] \o <<"-">> \o f[2] \o <<"-">> \o f[3] \o t : f \in DateFields, t \in TimeSuffixes}
  \cup {f[1] \o <<"-">> \o f[2] \o t : f \in DateFields, t \in TimeSuffixes}

ParseInit ==
  /\ op = "parse_timestamp"
  /\ input \in TimestampStrings
  /\ pc = "idle"
  /\ out = None
  /\ out2 = None

\* A parser panics: the build with overflow checks, in calculate_weekday.
ParsePanics(parsed) ==
  /\ IsSome(parsed)
  /\ Unwrap(parsed).overflow
  /\ pc' = "aborted"
  /\ UNCHANGED <<op, input, out, out2>>

\* time_patterns.rs parses the string.
TimePatternsParse ==
  /\ pc = "idle"
  /\ out = None
  /\ \/ /\ out' = Some(tp_parse_timestamp(input))
        /\ pc' = IF out2 = None THEN "idle" ELSE "done"
        /\ UNCHANGED <<op, input, out2>>
     \/ ParsePanics(tp_parse_timestamp(input))

\* trends.rs parses the string.
TrendsParse ==
  /\ pc = "idle"
  /\ out2 = None
  /\ \/ /\ out2' = Some(tr_parse_timestamp(input))
        /\ pc' = IF out = None THEN "idle" ELSE "done"
        /\ UNCHANGED <<op, input, out>>
     \/ ParsePanics(tr_parse_timestamp(input))

ParseNext ==
  \/ TimePatternsParse
  \/ TrendsParse

SpecParse == ParseInit /\ [][ParseNext]_vars

(***************************************************************************)
(* The calendar functions on their own: calculate_weekday of               *)
(* time_patterns.rs and get_week_key of trends.rs on every date of the     *)
(* Gregorian calendar (proleptic, year 0 included) in the years modelled.  *)
(***************************************************************************)

MaxYear == 400

DateYears == (0..MaxYear) \cup {1600, 1900, 2000, 2023, 2024, 2100}

\* The calendar's own leap years and month lengths.
IsLeapYear(year) == (year % 4 = 0 /\ year % 100 # 0) \/ year % 400 = 0

DaysInMonth(year, month) ==
  IF month = 2 THEN (IF IsLeapYear(year) THEN 29 ELSE 28)
  ELSE IF month \in {4, 6, 9, 11} THEN 30 ELSE 31

Dates ==
  {[year |-> y, month |-> m, day |-> d] :
     y \in DateYears, m \in 1..12, d \in 1..31} 

ValidDates == {date \in Dates : date.day <= DaysInMonth(date.year, date.month)}

DateInit ==
  /\ op \in {"calculate_weekday", "get_week_key"}
  /\ input \in ValidDates
  /\ pc = "idle"
  /\ out = None
  /\ out2 = None

CalculateWeekday ==
  /\ op = "calculate_weekday"
  /\ pc = "idle"
  /\ out' = Some(tp_calculate_weekday(input.year, input.month, input.day))
  /\ pc' = "done"
  /\ UNCHANGED <<op, input, out2>>

GetWeekKey ==
  /\ op = "get_week_key"
  /\ pc = "idle"
  /\ out' = get_week_key(input.year, input.month, input.day)
  /\ pc' = IF out' = None THEN "aborted" ELSE "done"
  /\ UNCHANGED <<op, input, out2>>

DateNext ==
  \/ CalculateWeekday
  \/ GetWeekKey

SpecDate == DateInit /\ [][DateNext]_vars

(***************************************************************************)
(* The time-of-day bands on their own: calculate_time_patterns on records  *)
(* of one day at the hours on both sides of every band boundary, at hours  *)
(* the parser does not validate (24, 100, u32::MAX), and on a record whose *)
(* timestamp does not parse.                                               *)
(***************************************************************************)

BoundaryHours == {0, 4, 5, 11, 12, 16, 17, 21, 22, 23, 24, 100, U32Max}

HourRecords ==
  {Reflection(Timestamp(2024, 1, 15, h), Some(Joy), None, None) : h \in BoundaryHours}
  \cup {Reflection(NotATimestamp, Some(Joy), None, None)}

\* One record at each hour from 0 to 25, in the order of the clock.
AllHours ==
  [i \in 1..26 |-> Reflection(Timestamp(2024, 1, 15, i - 1), Some(Calm), None, None)]

HourInit ==
  /\ op = "calculate_time_patterns"
  /\ input \in {Some(r) : r \in SeqsUpTo(HourRecords, MaxRecords) \cup {AllHours}}
  /\ pc = "idle"
  /\ out = None
  /\ out2 = None

HourNext == CalculateTimePatterns

SpecHours == HourInit /\ [][HourNext]_vars

(***************************************************************************)
(* Properties                                                              *)
(***************************************************************************)

\* The records (or values) the boundary operation decoded; none when the
\* input does not decode.
Decoded == IF IsSome(input) THEN Unwrap(input) ELSE <<>>

\* The results returned so far.
Returned ==
  (IF pc \in {"done", "again"} THEN {Unwrap(out)} ELSE {})
  \cup (IF pc = "again" THEN {Unwrap(out2)} ELSE {})

\* The sum of the bucket counts of one series.
RECURSIVE SumCounts(_)
SumCounts(series) ==
  IF series = <<>> THEN 0
  ELSE series[1].count + SumCounts(Tail(series))

\* C1: calculate_time_patterns and calculate_trends complete and return a
\* result whatever the records are (unparseable timestamps, months and days
\* out of range): no call aborts.
C1_NeverAborts ==
  op \in {"calculate_time_patterns", "calculate_trends"} => pc # "aborted"

\* The number of records whose timestamp each aggregator's parser accepts.
TimePatternsParseable ==
  Cardinality({i \in 1..Len(Decoded) : IsSome(tp_parse_timestamp(Decoded[i].timestamp))})

TrendsParseable ==
  Cardinality({i \in 1..Len(Decoded) : IsSome(tr_parse_timestamp(Decoded[i].timestamp))})

\* C2: in every series returned (dayOfWeek, timeOfDay, month; daily, weekly,
\* monthly) the bucket counts add up to the number of input records whose
\* timestamp parses.
C2_CountsSumToParseable ==
  LET patterns == IF op = "calculate_time_patterns" THEN TimePatternsParseable ELSE 0
      trends == IF op = "calculate_trends" THEN TrendsParseable ELSE 0
  IN  \A r \in Returned :
         /\ op = "calculate_time_patterns" =>
              /\ SumCounts(r.day_of_week) = patterns
              /\ SumCounts(r.time_of_day) = patterns
              /\ SumCounts(r.month) = patterns
         /\ op = "calculate_trends" =>
              /\ SumCounts(r.daily) = trends
              /\ SumCounts(r.weekly) = trends
              /\ SumCounts(r.monthly) = trends

\* Trends were returned for two records of which one does not parse, and the
\* other is the only one counted.
C2_Witness ==
  /\ op = "calculate_trends"
  /\ pc = "done"
  /\ Len(Decoded) = 2
  /\ TrendsParseable = 1
  /\ SumCounts(Unwrap(out).weekly) = 1

\* The order of the fields of a StatisticsResult.
StatisticsOrdered(s) ==
  LET pct(p) == s.percentiles[percentile_key(p)]
  IN  /\ FLeq(s.min, pct(10)) /\ FLeq(pct(10), pct(25))
      /\ FLeq(pct(25), s.median) /\ FLeq(s.median, pct(75))
      /\ FLeq(pct(75), pct(90)) /\ FLeq(pct(90), pct(95))
      /\ FLeq(pct(95), pct(99)) /\ FLeq(pct(99), s.max)
      /\ FLeq(s.min, s.mean) /\ FLeq(s.mean, s.max)

\* C3: for a non-empty array, min <= p10 <= p25 <= median <= p75 <= p90 <=
\* p95 <= p99 <= max and min <= mean <= max.
C3_Ordered ==
  \A r \in Returned :
     op = "calculate_statistics" /\ Decoded # <<>> =>
       /\ r = statistics_to_json(compute_statistics(Decoded))
       /\ StatisticsOrdered(compute_statistics(Decoded))

\* The two identifiers of a pair in lexicographic order.
OrderedPair(a, b) == IF StrLess(b, a) THEN <<b, a>> ELSE <<a, b>>

\* The positions i < j of the emotion list of each record.
PositionPairs ==
  UNION {{<<k, i, j>> : i \in 1..(j - 1)} :
         <<k, j>> \in UNION {{<<k, j>> : j \in 1..Len(emotions_of(Decoded[k]))} :
                             k \in 1..Len(Decoded)}}

PairAt(pp) ==
  OrderedPair(emotions_of(Decoded[pp[1]])[pp[2]], emotions_of(Decoded[pp[1]])[pp[3]])

\* The distinct unordered pairs of the input, and how often each occurs.
DistinctPairs == {PairAt(pp) : pp \in PositionPairs}

PairCount(pair) == Cardinality({pp \in PositionPairs : PairAt(pp) = pair})

\* C4: when at most 20 distinct pairs occur, compute_co_occurrence returns
\* exactly one entry per distinct unordered pair of identifiers at positions
\* i < j of a record's emotion list; the entry holds the two identifiers in
\* lexicographic order and the number of such position pairs.
C4_OneEntryPerPair ==
  \A r \in Returned :
     op = "calculate_co_occurrence" /\ Cardinality(DistinctPairs) <= TOP_CO_OCCURRENCES =>
       /\ Len(r.pairs) = Cardinality(DistinctPairs)
       /\ \A pair \in DistinctPairs :
            \E i \in 1..Len(r.pairs) :
               /\ r.pairs[i].emotion_pair = pair
               /\ r.pairs[i].count = PairCount(pair)

\* A list of counts is the cut to `limit` of the highest of the tallies
\* (a function from keys to counts): no longer than limit and than the
\* number of keys, in non-increasing order, every count that of as many
\* keys at least as it has places, and the keys of a count greater than the
\* one at place i fewer than i (they all come before it: none is left out).
HighestCounts(kept, tally, limit) ==
  /\ Len(kept) = Min(limit, Cardinality(DOMAIN tally))
  /\ \A i \in 1..(Len(kept) - 1) : kept[i] >= kept[i + 1]
  /\ \A i \in 1..Len(kept) :
       /\ Cardinality({j \in 1..Len(kept) : kept[j] = kept[i]})
            <= Cardinality({k \in DOMAIN tally : tally[k] = kept[i]})
       /\ Cardinality({k \in DOMAIN tally : tally[k] > kept[i]}) < i

\* The tallies the aggregators hold when their loop over the input ends.
PairTallies == co_loop(Decoded, 1, Len(Decoded), <<>>)

PatternMaps ==
  tp_loop(Decoded, 1, Len(Decoded),
          [panic |-> FALSE, overflow |-> FALSE, day_of_week_map |-> <<>>,
           time_of_day_map |-> <<>>, month_map |-> <<>>])

\* The topEmotions of every bucket of a series are the five highest of the
\* bucket's emotion tallies, each entry an emotion of the bucket.
TopEmotionsCut(series, map) ==
  \A i \in 1..Len(series) :
     LET emotions == map[series[i].period].emotions
         top == series[i].top_emotions
     IN  /\ HighestCounts([j \in 1..Len(top) |-> top[j].count],
                          [e \in DOMAIN emotions |-> emotions[e].count], TOP_EMOTIONS)
         /\ \A j \in 1..Len(top) :
              /\ top[j].emotion_id \in DOMAIN emotions
              /\ top[j].count = emotions[top[j].emotion_id].count
              /\ \A l \in 1..(j - 1) : top[l].emotion_id # top[j].emotion_id

\* C5: the co-occurrence list has at most 20 entries and every topEmotions
\* list at most 5; each is in non-increasing order of count, and nothing left
\* out of a list has a count greater than one kept in it.
C5_RankedCut ==
  LET maps == PatternMaps
      tallies == PairTallies
  IN  \A r \in Returned :
         /\ op = "calculate_co_occurrence" =>
              /\ Len(r.pairs) <= TOP_CO_OCCURRENCES
              /\ HighestCounts([i \in 1..Len(r.pairs) |-> r.pairs[i].count],
                               tallies, TOP_CO_OCCURRENCES)
         /\ op = "calculate_time_patterns" =>
              /\ \A series \in {r.day_of_week, r.time_of_day, r.month} :
                    \A i \in 1..Len(series) : Len(series[i].top_emotions) <= TOP_EMOTIONS
              /\ LET days == maps.day_of_week_map
                     times == maps.time_of_day_map
                     months == maps.month_map
                 IN  /\ TopEmotionsCut(r.day_of_week, days)
                     /\ TopEmotionsCut(r.time_of_day, times)
                     /\ TopEmotionsCut(r.month, months)

\* A co-occurrence list of 20 entries was returned for an input with more
\* than 20 pairs, the smallest count kept being that of a pair left out.
C5_Witness ==
  /\ op = "calculate_co_occurrence"
  /\ pc = "done"
  /\ Cardinality(DOMAIN PairTallies) > TOP_CO_OCCURRENCES
  /\ Len(Unwrap(out).pairs) = TOP_CO_OCCURRENCES
  /\ Unwrap(out).pairs[1].count > Unwrap(out).pairs[TOP_CO_OCCURRENCES].count

\* The calendar's count of days: the number of the day since 1 March of year
\* 0 (day 0, a Wednesday), years counted from March so that a leap day comes
\* last. \div rounds down, also for the year -1 of January and February 0.
DayNumber(year, month, day) ==
  LET y == IF month <= 2 THEN year - 1 ELSE year
      m == IF month <= 2 THEN month + 9 ELSE month - 3
  IN  365 * y + (y \div 4) - (y \div 100) + (y \div 400)
      + ((153 * m + 2) \div 5) + (day - 1)

\* The weekday of a date, 0 = Sunday .. 6 = Saturday.
TrueWeekday(year, month, day) == (DayNumber(year, month, day) + 3) % 7

\* C6: for every valid date of the Gregorian calendar calculate_weekday of
\* time_patterns.rs returns the true weekday, 0 = Sunday .. 6 = Saturday, and
\* the value is always in 0..6.
C6_TrueWeekday ==
  op = "calculate_weekday" /\ pc = "done" =>
    /\ Unwrap(out) \in 0..6
    /\ Unwrap(out) = TrueWeekday(input.year, input.month, input.day)

\* Two ranked lists differ at most in which of several equal-count entries
\* stands where: they are as long as each other and have the same count at
\* every place.
SameRanking(a, b) ==
  /\ Len(a) = Len(b)
  /\ \A i \in 1..Len(a) : a[i].count = b[i].count

\* Two time-pattern buckets are the same but for ties in topEmotions.
SameBucket(x, y) ==
  /\ x.period = y.period
  /\ x.count = y.count
  /\ x.average_intensity = y.average_intensity
  /\ SameRanking(x.top_emotions, y.top_emotions)

\* Two trend points are the same but for the choice of topEmotion among
\* equal-count emotions.
SamePoint(x, y) ==
  /\ x.date = y.date
  /\ x.count = y.count
  /\ x.average_intensity = y.average_intensity
  /\ IsSome(x.top_emotion) = IsSome(y.top_emotion)
  /\ IsSome(x.top_emotion) => Unwrap(x.top_emotion).count = Unwrap(y.top_emotion).count

\* The same buckets (points) in the same order.
SameBuckets(s, t) ==
  /\ Len(s) = Len(t)
  /\ \A i \in 1..Len(s) : SameBucket(s[i], t[i])

SamePoints(s, t) ==
  /\ Len(s) = Len(t)
  /\ \A i \in 1..Len(s) : SamePoint(s[i], t[i])

\* The same buckets, in the same order but for buckets of equal count.
SameBucketsButTies(s, t) ==
  /\ SameRanking(s, t)
  /\ \A i \in 1..Len(s) : \E j \in 1..Len(t) : SameBucket(s[i], t[j])

\* What two runs have in common whatever the month lists are.
SameButMonths(r1, r2) ==
  /\ op = "calculate_time_patterns" =>
       /\ SameBuckets(r1.day_of_week, r2.day_of_week)
       /\ SameBuckets(r1.time_of_day, r2.time_of_day)
  /\ op = "calculate_trends" =>
       /\ SamePoints(r1.daily, r2.daily)
       /\ SamePoints(r1.weekly, r2.weekly)
       /\ SamePoints(r1.monthly, r2.monthly)
  /\ op = "calculate_co_occurrence" =>
       /\ SameRanking(r1.pairs, r2.pairs)
       /\ \A i \in 1..Len(r1.pairs) : r1.pairs[i].percentage = r2.pairs[i].percentage
  /\ op = "calculate_statistics" => r1 = r2

\* C7 (as stated): two runs on the same input give the same output but for
\* the three documented ties (order of equal-count emotions in topEmotions,
\* choice of topEmotion among equal-count emotions, order of equal-count
\* pairs); the bucket order of every list, the month list included, is the
\* same on both runs.
C7_SameOutputButDocumentedTies ==
  pc = "again" =>
    /\ SameButMonths(Unwrap(out), Unwrap(out2))
    /\ op = "calculate_time_patterns" =>
         SameBuckets(Unwrap(out).month, Unwrap(out2).month)

\* C7 (amended): as stated, with a fourth tie: the month list has the same
\* buckets on both runs, in the same order but for buckets of equal count.
C7_SameOutputButTies ==
  pc = "again" =>
    /\ SameButMonths(Unwrap(out), Unwrap(out2))
    /\ op = "calculate_time_patterns" =>
         SameBucketsButTies(Unwrap(out).month, Unwrap(out2).month)

\* Two runs returned month lists that start with different months.
C7_Witness ==
  /\ op = "calculate_time_patterns"
  /\ pc = "again"
  /\ Len(Unwrap(out).month) = 2
  /\ Unwrap(out).month[1].period # Unwrap(out2).month[1].period

ZeroStatistics ==
  [panic |-> FALSE, mean |-> F64(0), median |-> F64(0), min |-> F64(0),
   max |-> F64(0), percentiles |-> <<>>]

SevenKeys ==
  {<<"p", "1", "0">>, <<"p", "2", "5">>, <<"p", "5", "0">>, <<"p", "7", "5">>,
   <<"p", "9", "0">>, <<"p", "9", "5">>, <<"p", "9", "9">>}

\* C8: compute_statistics of an empty array is all zeros with an empty
\* percentile map, and calculate_statistics returns the same for an empty or
\* undecodable input; for a non-empty array the percentile map has exactly
\* the keys p10, p25, p50, p75, p90, p95, p99.
C8_EmptyAndKeys ==
  \A r \in Returned :
     op = "calculate_statistics" =>
       /\ Decoded = <<>> =>
            /\ r = ZeroStatistics
            /\ compute_statistics(Decoded) = r
            /\ DOMAIN r.percentiles = {}
       /\ Decoded # <<>> => DOMAIN r.percentiles = SevenKeys

\* calculate_statistics has returned for an array that decoded to no value.
C8_Witness ==
  /\ op = "calculate_statistics"
  /\ pc = "done"
  /\ IsSome(input)
  /\ Unwrap(input) = <<>>
  /\ Unwrap(out).mean = F64(0)

\* C9: for every timestamp string the two parsers both fail, or both succeed
\* with the same year, month, day, hour, minute and weekday.
C9_SameContract ==
  pc = "done" =>
    LET tp == Unwrap(out)
        tr == Unwrap(out2)
    IN  /\ IsSome(tp) = IsSome(tr)
        /\ IsSome(tp) =>
             /\ Unwrap(tp).year = Unwrap(tr).year
             /\ Unwrap(tp).month = Unwrap(tr).month
             /\ Unwrap(tp).day = Unwrap(tr).day
             /\ Unwrap(tp).hour = Unwrap(tr).hour
             /\ Unwrap(tp).minute = Unwrap(tr).minute
             /\ Unwrap(tp).weekday = Unwrap(tr).weekday

\* The timestamps trends.rs parsed from the input.
TrendsParsed ==
  {Unwrap(tr_parse_timestamp(Decoded[i].timestamp)) :
     i \in {k \in 1..Len(Decoded) : IsSome(tr_parse_timestamp(Decoded[k].timestamp))}}

\* A series is strictly ascending in the lexicographic order of its labels.
StrictlyAscending(series) ==
  \A i \in 1..(Len(series) - 1) : StrLess(series[i].date, series[i + 1].date)

\* Chronological order of days and of months.
EarlierDay(a, b) ==
  \/ a.year < b.year
  \/ a.year = b.year /\ U32Less(a.month, b.month)
  \/ a.year = b.year /\ a.month = b.month /\ U32Less(a.day, b.day)

EarlierMonth(a, b) ==
  \/ a.year < b.year
  \/ a.year = b.year /\ U32Less(a.month, b.month)

\* The points of the daily and of the monthly series stand in the
\* chronological order of the days (months) of the records they count.
Chronological(r) ==
  /\ \A i, j \in 1..Len(r.daily) : \A a, b \in TrendsParsed :
        i < j /\ daily_key(a) = r.daily[i].date /\ daily_key(b) = r.daily[j].date
          => EarlierDay(a, b)
  /\ \A i, j \in 1..Len(r.monthly) : \A a, b \in TrendsParsed :
        i < j /\ monthly_key(a) = r.monthly[i].date
              /\ monthly_key(b) = r.monthly[j].date
          => EarlierMonth(a, b)

\* Years of at most four digits and days of at most two.
FourDigitYears == \A a \in TrendsParsed : a.year >= 0 /\ a.year <= 9999

TwoDigitDays == \A a \in TrendsParsed : a.day >= 0 /\ a.day <= 99

\* C10 (as stated): each series of compute_trends is strictly ascending by
\* label, and the order of the daily and monthly series is the chronological
\* order of the parsed dates, for every set of records.
C10_AscendingAndChronological ==
  \A r \in Returned :
     op = "calculate_trends" =>
       /\ StrictlyAscending(r.daily)
       /\ StrictlyAscending(r.weekly)
       /\ StrictlyAscending(r.monthly)
       /\ Chronological(r)

\* C10 (amended): each series is strictly ascending by label; the order of
\* the daily and monthly series is chronological when every parsed year has
\* at most four digits and every parsed day at most two.
C10_AscendingAndChronologicalInRange ==
  \A r \in Returned :
     op = "calculate_trends" =>
       /\ StrictlyAscending(r.daily)
       /\ StrictlyAscending(r.weekly)
       /\ StrictlyAscending(r.monthly)
       /\ FourDigitYears /\ TwoDigitDays => Chronological(r)

\* Trends were returned with two days, two weeks and two months, from
\* records in range that are not given in chronological order.
C10_Witness ==
  /\ op = "calculate_trends"
  /\ pc = "done"
  /\ FourDigitYears /\ TwoDigitDays
  /\ Len(Unwrap(out).daily) = 2
  /\ Len(Unwrap(out).weekly) = 2
  /\ Len(Unwrap(out).monthly) = 2
  /\ tr_parse_timestamp(Decoded[1].timestamp) # tr_parse_timestamp(Decoded[2].timestamp)
  /\ daily_key(Unwrap(tr_parse_timestamp(Decoded[1].timestamp)))
       = Unwrap(out).daily[2].date

\* The true ordinal day of a date in its year, 1 January = 1, counted on the
\* calendar: 29 February and every later day of a leap year included.
DayOfYear(year, month, day) ==
  DayNumber(year, month, day) - DayNumber(year, 1, 1) + 1

\* ceil(n / 7) of a positive n.
CeilDiv7(n) == IF n % 7 = 0 THEN n \div 7 ELSE (n \div 7) + 1

\* The week number written at the end of a week label.
WeekOf(label) == Unwrap(ParseU32(SubSeq(label, Len(label) - 1, Len(label))))

\* The day before a date, for every date but 1 January.
PreviousDay(date) ==
  IF date.day > 1 THEN [date EXCEPT !.day = date.day - 1]
  ELSE [date EXCEPT !.month = date.month - 1,
                    !.day = DaysInMonth(date.year, date.month - 1)]

\* C11: for every valid calendar date get_week_key returns the label
\* YYYY-Www (the year padded to four digits, "-W", the week in two digits)
\* whose week number is ceil(day-of-year / 7) on the true ordinal day of the
\* date in its year; the week number lies in 1..53; and within one calendar
\* year a date never gets a smaller week number than the day before it, so
\* that a later date never gets a smaller week number than an earlier one.
C11_WeekOfTrueDayOfYear ==
  op = "get_week_key" /\ pc # "idle" =>
    /\ pc = "done"
    /\ IsSome(out)
    /\ LET week == CeilDiv7(DayOfYear(input.year, input.month, input.day))
       IN  /\ week \in 1..53
           /\ Unwrap(out) = FormatPadded(input.year, 4) \o <<"-", "W">>
                              \o <<DigitChar(week \div 10), DigitChar(week % 10)>>
           /\ WeekOf(Unwrap(out)) = week
    /\ (input.month > 1 \/ input.day > 1) =>
         LET before == PreviousDay(input)
             earlier == get_week_key(before.year, before.month, before.day)
         IN  /\ IsSome(earlier)
             /\ WeekOf(Unwrap(earlier)) <= WeekOf(Unwrap(out))

\* The last day of a leap year has been given its week: day 366, week 53.
C11_Witness ==
  /\ op = "get_week_key"
  /\ pc = "done"
  /\ input = [year |-> 2024, month |-> 12, day |-> 31]
  /\ DayOfYear(input.year, input.month, input.day) = 366
  /\ out = Some(<<"2", "0", "2", "4", "-", "W", "5", "3">>)

\* round(a / b) of a >= 0 and b > 0, halves away from zero.
RoundHalfAway(a, b) == IF 2 * (a % b) >= b THEN (a \div b) + 1 ELSE a \div b

\* The element at index i (from 0) of the ascending sorted copy of values:
\* the input value with at most i smaller values and more than i values that
\* are not greater.
SortedAt(values, i) ==
  {values[k] : k \in {k \in 1..Len(values) :
     /\ Cardinality({j \in 1..Len(values) : FLess(values[j], values[k])}) <= i
     /\ Cardinality({j \in 1..Len(values) : FLeq(values[j], values[k])}) > i}}

\* C12: for every non-empty array of length n and each p of 10, 25, 50, 75,
\* 90, 95, 99 the value under the key p<p> is the element at index
\* round(p/100 * (n-1)), halves away from zero, of the ascending sorted copy
\* of the input, so it is one of the input values; the index never exceeds
\* n-1; and for odd n the p50 value equals the median.
C12_NearestRank ==
  \A r \in Returned :
     op = "calculate_statistics" /\ Decoded # <<>> =>
       LET n == Len(Decoded)
       IN  /\ \A i \in 1..Len(percentiles_to_calc) :
                LET p == percentiles_to_calc[i]
                    index == RoundHalfAway(p * (n - 1), 100)
                    key == <<"p">> \o NatToStr(p)
                IN  /\ index <= n - 1
                    /\ percentile_index(p, n) = index
                    /\ key \in DOMAIN r.percentiles
                    /\ SortedAt(Decoded, index) = {r.percentiles[key]}
                    /\ \E k \in 1..n : Decoded[k] = r.percentiles[key]
           /\ n % 2 = 1 => r.percentiles[<<"p", "5", "0">>] = r.median

\* Three values out of order: p25 is at 0.25 * 2 = 0.5, rounded to index 1,
\* and p50 is the median.
C12_Witness ==
  /\ op = "calculate_statistics"
  /\ pc = "done"
  /\ input = Some(<<F64(4), F64(1), F64(2)>>)
  /\ Unwrap(out).percentiles[<<"p", "1", "0">>] = F64(1)
  /\ Unwrap(out).percentiles[<<"p", "2", "5">>] = F64(2)
  /\ Unwrap(out).percentiles[<<"p", "5", "0">>] = F64(2)
  /\ Unwrap(out).percentiles[<<"p", "9", "9">>] = F64(4)
  /\ Unwrap(out).median = F64(2)

\* The band of an hour as the specification gives it.
Band(h) ==
  IF h \in 5..11 THEN <<"m","o","r","n","i","n","g">>
  ELSE IF h \in 12..16 THEN <<"a","f","t","e","r","n","o","o","n">>
  ELSE IF h \in 17..21 THEN <<"e","v","e","n","i","n","g">>
  ELSE <<"n","i","g","h","t">>

FourBands ==
  << <<"m","o","r","n","i","n","g">>, <<"a","f","t","e","r","n","o","o","n">>,
     <<"e","v","e","n","i","n","g">>, <<"n","i","g","h","t">> >>

\* The records whose timestamp parses and whose parsed hour is in the band.
RecordsInBand(band) ==
  {i \in 1..Len(Decoded) :
     /\ IsSome(tp_parse_timestamp(Decoded[i].timestamp))
     /\ Band(Unwrap(tp_parse_timestamp(Decoded[i].timestamp)).hour) = band}

\* C13: compute_time_patterns counts every record with a resolvable timestamp
\* in exactly one time-of-day band, the band of its parsed hour h: morning
\* for 5 <= h < 12, afternoon for 12 <= h < 17, evening for 17 <= h < 22,
\* night for every other hour (24 and more included). The timeOfDay list
\* holds only the four labels, each at most once, in the order morning,
\* afternoon, evening, night.
C13_OneBandPerRecord ==
  \A r \in Returned :
     op = "calculate_time_patterns" =>
       /\ ~r.panic
       /\ \A i \in 1..Len(r.time_of_day) :
            \E b \in 1..Len(FourBands) : r.time_of_day[i].period = FourBands[b]
       /\ \A i, j \in 1..Len(r.time_of_day) :
            i < j => \E a, b \in 1..Len(FourBands) :
                       /\ a < b
                       /\ r.time_of_day[i].period = FourBands[a]
                       /\ r.time_of_day[j].period = FourBands[b]
       /\ \A b \in 1..Len(FourBands) :
            LET records == RecordsInBand(FourBands[b])
                entries == {i \in 1..Len(r.time_of_day) :
                              r.time_of_day[i].period = FourBands[b]}
            IN  IF records = {} THEN entries = {}
                ELSE /\ Cardinality(entries) = 1
                     /\ \A i \in entries :
                          r.time_of_day[i].count = Cardinality(records)
       /\ SumCounts(r.time_of_day) = TimePatternsParseable

\* A record at 12 o'clock and one at hour 24 have been counted: one in the
\* afternoon, one in the night, listed in this order.
C13_Witness ==
  /\ op = "calculate_time_patterns"
  /\ pc = "done"
  /\ input = Some(<<Reflection(Timestamp(2024, 1, 15, 24), Some(Joy), None, None),
                    Reflection(Timestamp(2024, 1, 15, 12), Some(Joy), None, None)>>)
  /\ Len(Unwrap(out).time_of_day) = 2
  /\ Unwrap(out).time_of_day[1].period = FourBands[2]
  /\ Unwrap(out).time_of_day[1].count = 1
  /\ Unwrap(out).time_of_day[2].period = FourBands[4]
  /\ Unwrap(out).time_of_day[2].count = 1

\* C14: for every non-empty sequence of records every entry returned by
\* compute_co_occurrence has a count of at least 1 and at most the number of
\* records, and so a percentage above 0 and at most 100; also for records
\* whose emotion list repeats an identifier.
C14_CountWithinTotal ==
  \A r \in Returned :
     op = "calculate_co_occurrence" /\ Decoded # <<>> =>
       \A i \in 1..Len(r.pairs) :
          /\ r.pairs[i].count >= 1
          /\ r.pairs[i].count <= Len(Decoded)
          /\ r.pairs[i].percentage.times = 100
          /\ r.pairs[i].percentage.quotient.num > 0
          /\ r.pairs[i].percentage.quotient.num <= r.pairs[i].percentage.quotient.den

====
